---- MODULE Spec2Model ----
(***************************************************************************)
(* Model of backend/app.js: an express server that keeps a collection of   *)
(* user records in one JSON document, data.json, and serves create, list,  *)
(* get-by-id, delete and update requests on it.                            *)
(***************************************************************************)
EXTENDS Integers, Sequences, FiniteSets, TLC

(***************************************************************************)
(* Bounds of the model.                                                    *)
(***************************************************************************)
\* A Create is only issued while the collection holds fewer records.
MaxLen == 3
\* A Create is only issued while the id it would generate is at most this.
MaxGenId == 4
\* The requests that may be in flight at once.
NClients == 2

(***************************************************************************)
(* JavaScript values.  A value is a record [t, n]: the number n, the       *)
(* decimal string of n, the n-th non-numeric string, or NaN.               *)
(***************************************************************************)
Num(n) == [t |-> "num", n |-> n]
Str(n) == [t |-> "str", n |-> n]
Text(n) == [t |-> "text", n |-> n]
NaN == [t |-> "nan", n |-> 0]

Abc == Text(0)
Ana == Text(1)

Fields == {"id", "name"}

\* The ids a client may put in a request body.
BodyIds == {Num(1), Str(1), Abc}

FieldVals(k) ==
  CASE k = "id" -> BodyIds
    [] k = "name" -> {Ana}

AllVals == BodyIds \cup {Ana}

\* The JSON objects a request body may be: any subset of the fields.
Bodies ==
  UNION {{b \in [D -> AllVals] : \A k \in D : b[k] \in FieldVals(k)} : D \in SUBSET Fields}

\* The :id segment of a request path is a string.
PathIds == {Str(n) : n \in 1..(MaxGenId + 1)} \cup {Abc}

EmptyObj == [k \in {} |-> NaN]

Clients == 1..NClients

VARIABLES
  file,   \* data.json: [kind, doc]
  res,    \* the response sent last: [op, status, data, wrote]
  conns   \* per client, its Create request in flight: [pc, body, snap]

vars == <<file, res, conns>>

(***************************************************************************)
(* Helpers of app.js.                                                      *)
(***************************************************************************)
\* parseInt(v)
parseInt(v) ==
  IF v.t \in {"num", "str"} THEN Num(v.n) ELSE NaN

\* parseInt(item.id): a missing property is undefined, which parses to NaN
parseIntId(item) ==
  IF "id" \in DOMAIN item THEN parseInt(item["id"]) ELSE NaN

\* Mutant of StrictEq: a comparison under which NaN equals NaN.
SameValue(a, b) == a = b

\* a === b on numbers: NaN equals nothing, itself included
StrictEq(a, b) == a # NaN /\ b # NaN /\ a = b

\* { ...base, ...body }: a property of body overrides the same property of base
ObjectSpread(base, body) ==
  [k \in (DOMAIN base) \cup (DOMAIN body) |->
     IF k \in DOMAIN body THEN body[k] ELSE base[k]]

\* { id: newId, ...req.body }
NewRecord(id, body) == ObjectSpread([k \in {"id"} |-> id], body)

Missing == [kind |-> "missing", doc |-> <<>>]
EmptyFile == [kind |-> "empty", doc |-> <<>>]
Garbage == [kind |-> "garbage", doc |-> <<>>]
JSONstringify(data) == [kind |-> "json", doc |-> data]

\* readDataFromFile(): rok is whether fs.readFileSync succeeds
readDataFromFile(f, rok) ==
  IF f.kind = "missing" THEN <<>>
  ELSE IF ~rok THEN <<>>
  ELSE IF f.kind = "empty" THEN <<>>
  ELSE IF f.kind = "garbage" THEN <<>>
  ELSE f.doc

\* writeDataToFile(data): wok is whether fs.writeFileSync succeeds; a failure
\* is logged and not rethrown
writeDataToFile(f, data, wok) ==
  IF wok THEN JSONstringify(data) ELSE f

SeqMax(s) ==
  LET RECURSIVE go(_, _)
      go(i, m) == IF i > Len(s) THEN m
                  ELSE go(i + 1, IF s[i] > m THEN s[i] ELSE m)
  IN go(2, s[1])

\* Mutant of generateId: the next id taken from the length of the collection.
generateIdByLength(dataArray) == Num(Len(dataArray) + 1)

\* generateId(dataArray)
generateId(dataArray) ==
  IF Len(dataArray) = 0 THEN Num(1)
  ELSE
    LET parsed == [i \in 1..Len(dataArray) |-> parseIntId(dataArray[i])]
        kept == SelectSeq(parsed, LAMBDA id : id # NaN)
        numericIds == [i \in 1..Len(kept) |-> kept[i].n]
    IN IF Len(numericIds) = 0 THEN Num(1)
       ELSE Num(SeqMax(numericIds) + 1)

\* data.findIndex(item => parseInt(item.id) === id), 0 for -1
findIndex(data, id) ==
  LET hits == {i \in 1..Len(data) : StrictEq(parseIntId(data[i]), id)}
  IN IF hits = {} THEN 0 ELSE CHOOSE i \in hits : \A j \in hits : i <= j

\* Mutant of filterOut: only the first matching record is removed.
filterOutFirst(data, id) ==
  LET index == findIndex(data, id)
  IN IF index = 0 THEN data
     ELSE SubSeq(data, 1, index - 1) \o SubSeq(data, index + 1, Len(data))

\* data.filter(item => parseInt(item.id) !== id)
filterOut(data, id) ==
  SelectSeq(data, LAMBDA item : ~StrictEq(parseIntId(item), id))

\* What became of the handler's write: none attempted, done, or failed
WriteOutcome(wok) == IF wok THEN "ok" ELSE "failed"

Response(op, status, data, wrote) ==
  [op |-> op, status |-> status, data |-> data, wrote |-> wrote]

(***************************************************************************)
(* The routes.  Each handler runs from its load to its response.           *)
(***************************************************************************)
\* app.post("/data")
Create(body, rok, wok) ==
  LET existingData == readDataFromFile(file, rok)
      newId == generateId(existingData)
      todoData == NewRecord(newId, body)
  IN /\ Len(existingData) < MaxLen
     /\ newId.n <= MaxGenId
     /\ file' = writeDataToFile(file, Append(existingData, todoData), wok)
     /\ res' = Response("create", 200, <<todoData>>, WriteOutcome(wok))
     /\ UNCHANGED conns

\* app.get("/data")
List(rok) ==
  LET data == readDataFromFile(file, rok)
  IN /\ file' = file
     /\ res' = Response("list", 200, data, "none")
     /\ UNCHANGED conns

\* app.get("/data/:id")
GetById(path, rok) ==
  LET data == readDataFromFile(file, rok)
      id == parseInt(path)
      index == findIndex(data, id)
  IN /\ file' = file
     /\ res' = IF index = 0 THEN Response("get", 404, <<>>, "none")
               ELSE Response("get", 200, <<data[index]>>, "none")
     /\ UNCHANGED conns

\* app.delete("/data/:id")
Delete(path, rok, wok) ==
  LET data == readDataFromFile(file, rok)
      id == parseInt(path)
      filteredData == filterOut(data, id)
  IN IF Len(filteredData) = Len(data)
     THEN /\ file' = file
          /\ res' = Response("delete", 404, <<>>, "none")
          /\ UNCHANGED conns
     ELSE /\ file' = writeDataToFile(file, filteredData, wok)
          /\ res' = Response("delete", 200, <<>>, WriteOutcome(wok))
          /\ UNCHANGED conns

\* { id, ...req.body }
UpdatedItem(id, body) == ObjectSpread([k \in {"id"} |-> id], body)

\* app.put("/data/:id")
Update(path, body, rok, wok) ==
  LET data == readDataFromFile(file, rok)
      id == parseInt(path)
      index == findIndex(data, id)
      updatedItem == UpdatedItem(id, body)
  IN IF index = 0
     THEN /\ file' = file
          /\ res' = Response("update", 404, <<>>, "none")
          /\ UNCHANGED conns
     ELSE /\ file' = writeDataToFile(file, [data EXCEPT ![index] = updatedItem], wok)
          /\ res' = Response("update", 200, <<updatedItem>>, WriteOutcome(wok))
          /\ UNCHANGED conns

NoResponse == Response("none", 0, <<>>, "none")
IdleConn == [pc |-> "idle", body |-> EmptyObj, snap |-> <<>>]

\* The store before the first request: data.json does not exist.
Init ==
  /\ file = Missing
  /\ res = NoResponse
  /\ conns = [c \in Clients |-> IdleConn]

\* The requests, served by a file system that works.
Next ==
  \/ \E body \in Bodies : Create(body, TRUE, TRUE)
  \/ List(TRUE)
  \/ \E path \in PathIds : GetById(path, TRUE)
  \/ \E path \in PathIds : Delete(path, TRUE, TRUE)
  \/ \E path \in PathIds, body \in Bodies : Update(path, body, TRUE, TRUE)

Spec == Init /\ [][Next]_vars

(***************************************************************************)
(* The same requests served by a file system that may fail, on a document  *)
(* that may be missing, empty or unparseable.                              *)
(***************************************************************************)
Unusable == {Missing, EmptyFile, Garbage}

InitFault ==
  /\ file \in Unusable
  /\ res = NoResponse
  /\ conns = [c \in Clients |-> IdleConn]

\* Something outside the server removes, truncates or garbles data.json.
Damage ==
  /\ file' \in Unusable
  /\ file' # file
  /\ UNCHANGED <<res, conns>>

NextFault ==
  \/ \E body \in Bodies, rok \in BOOLEAN, wok \in BOOLEAN : Create(body, rok, wok)
  \/ \E rok \in BOOLEAN : List(rok)
  \/ \E path \in PathIds, rok \in BOOLEAN : GetById(path, rok)
  \/ \E path \in PathIds, rok \in BOOLEAN, wok \in BOOLEAN : Delete(path, rok, wok)
  \/ \E path \in PathIds, body \in Bodies, rok \in BOOLEAN, wok \in BOOLEAN :
       Update(path, body, rok, wok)
  \/ Damage

SpecFault == InitFault /\ [][NextFault]_vars

(***************************************************************************)
(* Create requests in flight at once.  Node runs one handler at a time on  *)
(* its event loop; app.post("/data") is split here at the point between    *)
(* its load and the rest.                                                  *)
(***************************************************************************)
\* Mutant of HandlerYields: a handler that awaits its file reads and writes.
HandlerYieldsAsync == TRUE

\* Whether the handler returns to the event loop between its load and its
\* save: fs.readFileSync and fs.writeFileSync are synchronous and the handler
\* awaits nothing.
HandlerYields == FALSE

\* A handler is between its load and its save.
Busy == \E d \in Clients : conns[d].pc = "loaded"

\* POST /data arrives and waits for the event loop.
Arrive(c, body) ==
  /\ conns[c].pc = "idle"
  /\ conns' = [conns EXCEPT ![c] = [pc |-> "queued", body |-> body, snap |-> <<>>]]
  /\ UNCHANGED <<file, res>>

\* const existingData = readDataFromFile()
Load(c) ==
  /\ conns[c].pc = "queued"
  /\ HandlerYields \/ ~Busy
  /\ conns' = [conns EXCEPT ![c].pc = "loaded", ![c].snap = readDataFromFile(file, TRUE)]
  /\ UNCHANGED <<file, res>>

\* The record the handler of client c builds from its snapshot.
Sent(c) == NewRecord(generateId(conns[c].snap), conns[c].body)

\* generateId, push, writeDataToFile, res.json
Save(c) ==
  /\ conns[c].pc = "loaded"
  /\ file' = writeDataToFile(file, Append(conns[c].snap, Sent(c)), TRUE)
  /\ res' = Response("create", 200, <<Sent(c)>>, "ok")
  /\ conns' = [conns EXCEPT ![c].pc = "done"]

NextLoop ==
  \/ \E c \in Clients, body \in Bodies : Arrive(c, body)
  \/ \E c \in Clients : Load(c)
  \/ \E c \in Clients : Save(c)

SpecLoop == Init /\ [][NextLoop]_vars

(***************************************************************************)
(* generateId on its own, applied to any collection: ids may be negative,  *)
(* numeric strings, non-numeric strings or missing.                        *)
(***************************************************************************)
AnyIds == {Num(-2), Num(0), Num(1), Num(2), Str(3), Abc}

AnyItems == {[k \in {"id"} |-> v] : v \in AnyIds} \cup {EmptyObj}

Collections == UNION {[1..n -> AnyItems] : n \in 0..MaxLen}

InitNextId ==
  /\ file \in {JSONstringify(c) : c \in Collections}
  /\ res = NoResponse
  /\ conns = [c \in Clients |-> IdleConn]

CallGenerateId ==
  /\ res.op = "none"
  /\ res' = Response("nextId", 0, <<[k \in {"id"} |-> generateId(file.doc)]>>, "none")
  /\ UNCHANGED <<file, conns>>

NextNextId == CallGenerateId

SpecNextId == InitNextId /\ [][NextNextId]_vars

(***************************************************************************)
(* The claims.  They speak of the collection and of ids in their own       *)
(* terms, not through the helpers of app.js.                               *)
(***************************************************************************)
\* The persisted collection: the array in data.json, empty when there is none.
Stored(f) == IF f.kind = "json" THEN f.doc ELSE <<>>

HasId(item) == "id" \in DOMAIN item

\* The id of the record is the integer k, or a string that reads as k.
ParsesTo(item, k) ==
  HasId(item) /\ item["id"].t \in {"num", "str"} /\ item["id"].n = k

\* The path id reads as an integer and some record's id parses to it.
Matched(f, path) ==
  path.t = "str" /\ \E i \in 1..Len(Stored(f)) : ParsesTo(Stored(f)[i], path.n)

\* The position of the first record whose id parses to the path id.
FirstMatch(f, path) ==
  CHOOSE i \in 1..Len(Stored(f)) :
    /\ ParsesTo(Stored(f)[i], path.n)
    /\ \A j \in 1..(i - 1) : ~ParsesTo(Stored(f)[j], path.n)

\* The parseable numeric ids of a collection.
NumericIds(C) ==
  {C[i]["id"].n : i \in {j \in 1..Len(C) : HasId(C[j]) /\ C[j]["id"].t \in {"num", "str"}}}

\* What the store assigns: one more than the largest parseable id, or 1.
StoreAssigned(C) ==
  IF NumericIds(C) = {} THEN 1
  ELSE 1 + CHOOSE m \in NumericIds(C) : \A p \in NumericIds(C) : p <= m

\* Claim C1 (as stated, refuted by the code): in every reachable state every
\* record of the persisted collection has an integer id and no two records
\* share an id.
C1_UniqueIntegerIds ==
  LET C == Stored(file)
  IN /\ \A i \in 1..Len(C) : HasId(C[i]) /\ C[i]["id"].t = "num"
     /\ \A i, j \in 1..Len(C) : i # j => C[i]["id"] # C[j]["id"]

\* Claim C2 (as stated, refuted by the code): whatever the body of a Create
\* carries, the record appended and returned has the id the store assigns for
\* the collection that request loaded, never a value from the body.
C2_CreateIdAssignedByStore ==
  [][\A body \in Bodies :
       Create(body, TRUE, TRUE) =>
         /\ res'.data[1]["id"] = Num(StoreAssigned(Stored(file)))
         /\ Stored(file')[Len(Stored(file'))]["id"] = Num(StoreAssigned(Stored(file)))]_vars

\* Claim C3: generateId(C) is the largest parseable numeric id of C plus one,
\* so above every parseable id of C, and 1 when C is empty or holds no
\* parseable id; ids that do not parse are ignored.
C3_NextIdAboveNumericIds ==
  res.op = "nextId" =>
    LET P == NumericIds(file.doc)
        r == res.data[1]["id"]
    IN /\ r.t = "num"
       /\ P = {} => r.n = 1
       /\ P # {} => (r.n - 1 \in P /\ \A p \in P : r.n > p)

\* generateId was applied to a collection that holds a non-numeric id, a
\* missing id and the numeric string "3" as its largest id, and gave 4.
C3_Witness ==
  /\ res.op = "nextId"
  /\ res.data[1]["id"] = Num(4)
  /\ \E i, j, k \in 1..Len(file.doc) :
       /\ file.doc[i] = [f \in {"id"} |-> Abc]
       /\ file.doc[j] = EmptyObj
       /\ file.doc[k] = [f \in {"id"} |-> Str(3)]

\* The :id segment that names the id of a record: String(id).
PathOf(item) ==
  IF HasId(item) /\ item["id"].t = "num" THEN Str(item["id"].n)
  ELSE IF HasId(item) THEN item["id"]
  ELSE Text(9)

\* Claim C4 (as stated, refuted by the code): a successful Create followed at
\* once by Get-by-id with the id that Create returned answers 200 with the
\* record that Create returned (the body's fields plus the id).
C4_CreateThenGet ==
  [][(/\ res.op = "create"
      /\ res.status = 200
      /\ GetById(PathOf(res.data[1]), TRUE))
     => (res'.status = 200 /\ res'.data = res.data)]_vars

\* {id: k} plus the fields of the body, the id kept as k.
Replacement(k, body) ==
  [f \in {"id"} \cup DOMAIN body |-> IF f = "id" THEN Num(k) ELSE body[f]]

\* Claim C5 (as stated, refuted by the code): an Update of a present id k with
\* any body leaves at the matched position exactly {id: k} plus the body's
\* fields, answers 200 with that record, and changes no other record, nor the
\* order or the length of the collection.
C5_UpdateReplacesKeepingId ==
  [][\A path \in PathIds, body \in Bodies :
       (Update(path, body, TRUE, TRUE) /\ Matched(file, path)) =>
         /\ res'.status = 200
         /\ res'.data = <<Replacement(path.n, body)>>
         /\ Stored(file') =
              [Stored(file) EXCEPT ![FirstMatch(file, path)] = Replacement(path.n, body)]]_vars

\* Claim C6: a Delete whose path id matches no record, a path id that is no
\* integer included, answers 404, writes nothing and leaves data.json as it
\* was.
C6_DeleteAbsentChangesNothing ==
  [][res'.op = "delete" => \A path \in PathIds :
       (Delete(path, TRUE, TRUE) /\ ~Matched(file, path)) =>
         /\ res'.status = 404
         /\ res'.wrote = "none"
         /\ file' = file]_vars

\* A Delete was answered 404 on a collection that holds a record with a
\* non-numeric id and a record with a numeric one.
C6_Witness ==
  /\ res.op = "delete"
  /\ res.status = 404
  /\ \E i, j \in 1..Len(Stored(file)) :
       /\ HasId(Stored(file)[i]) /\ Stored(file)[i]["id"] = Abc
       /\ ParsesTo(Stored(file)[j], 1)

\* Claim C7 (as stated, refuted by the code): when the write to data.json
\* fails during a Create, the handler answers 500, not success.
C7_CreateWriteFailureAnswers500 ==
  (res.op = "create" /\ res.wrote = "failed") => res.status = 500

\* The positions of the records whose id does not parse to k.
KeptPositions(C, k) == {i \in 1..Len(C) : ~ParsesTo(C[i], k)}

\* Claim C8: a Delete whose path id k matches a record answers 200 and removes
\* every record whose id parses to k and no other: the records left are the
\* others, non-numeric ids included, unchanged and in their order.
C8_DeleteRemovesAllMatches ==
  [][res'.op = "delete" => \A path \in PathIds :
       (Delete(path, TRUE, TRUE) /\ Matched(file, path)) =>
         LET C == Stored(file)
             D == Stored(file')
             K == KeptPositions(C, path.n)
         IN /\ res'.status = 200
            /\ \A i \in 1..Len(D) : ~ParsesTo(D[i], path.n)
            /\ Len(D) = Cardinality(K)
            /\ \A i \in K : D[Cardinality({j \in K : j <= i})] = C[i]]_vars

\* A Delete was answered 200 and wrote a collection in which a record with a
\* non-numeric id and a record with a numeric id remain.
C8_Witness ==
  /\ res.op = "delete"
  /\ res.status = 200
  /\ res.wrote = "ok"
  /\ \E i, j \in 1..Len(Stored(file)) :
       /\ HasId(Stored(file)[i]) /\ Stored(file)[i]["id"] = Abc
       /\ \E k \in 1..MaxGenId : ParsesTo(Stored(file)[j], k)

Unloadable(f, rok) == f \in Unusable \/ ~rok

\* Claim C10 (as stated, refuted by the code): when data.json is missing,
\* empty, or fails to read or parse, List answers 200 with an empty array,
\* Get, Update and Delete answer 404 without writing, and a Create saves a
\* collection that holds only the new record, with id 1.
C10_UnloadableStoreIsEmpty ==
  [][\A rok \in BOOLEAN, wok \in BOOLEAN :
       /\ (Unloadable(file, rok) /\ List(rok)) =>
            (res'.status = 200 /\ res'.data = <<>>)
       /\ \A path \in PathIds :
            (Unloadable(file, rok) /\ GetById(path, rok)) =>
              (res'.status = 404 /\ file' = file)
       /\ \A path \in PathIds :
            (Unloadable(file, rok) /\ Delete(path, rok, wok)) =>
              (res'.status = 404 /\ res'.wrote = "none" /\ file' = file)
       /\ \A path \in PathIds, body \in Bodies :
            (Unloadable(file, rok) /\ Update(path, body, rok, wok)) =>
              (res'.status = 404 /\ res'.wrote = "none" /\ file' = file)
       /\ \A body \in Bodies :
            (Unloadable(file, rok) /\ Create(body, rok, wok)) =>
              /\ res'.status = 200
              /\ res'.data = <<Replacement(1, body)>>
              /\ wok => file' = JSONstringify(<<Replacement(1, body)>>)]_vars

====
